---- MODULE Spec2Model ----
(***************************************************************************)
(* Model of Truss_stem_solved.py: the TrussModel data (Position, Material, *)
(* Node, Link), TrussController.ImportFromFile with its line dispatch,     *)
(* calcLinkVals, and TrussView.displayReport / buildScene.                 *)
(*                                                                         *)
(* Numbers.  The program computes with Python floats, which have finite    *)
(* precision: every arithmetic result is rounded to the nearest            *)
(* representable value.  The model keeps that: its number format is the    *)
(* integers (the representable values are the multiples of one unit), so   *)
(* squares, sums and differences of the coordinates used are exact and a   *)
(* square root is rounded to the nearest representable value.              *)
(* An optional value (Python None or a value) is <<>> or <<v>>.            *)
(***************************************************************************)
EXTENDS Integers, Sequences, FiniteSets, TLC

VARIABLES
    truss,    \* TrussController.truss : the TrussModel
    view,     \* TrussController.view  : the widgets and the scene of the TrussView
    pc,       \* where the controller is: "idle" or inside ImportFromFile ("loop")
    lines,    \* ImportFromFile: the lines of the file not yet processed
    file,     \* the lines read by the current (or last) ImportFromFile
    raised,   \* the exception the last ImportFromFile that read a file ended with ("": none)
    lastOp,   \* the last controller method that read a file or wrote the model
    pre,      \* the TrussModel when the current (or last) ImportFromFile started
    prev,     \* file and pre of the import before the current (or last) one
    nRead     \* the number of lines read from files so far

vars == <<truss, view, pc, lines, file, raised, lastOp, pre, prev, nRead>>

(***************************** bounds **************************************)
\* the longest file of the parsing specification Spec
MaxLines == 3
\* the longest node/link body of a file of the geometry specification SpecGeom
MaxGeomLines == 4
\* the total number of lines all the imports of SpecReimport read
MaxTotalLines == 4

(***************************** values **************************************)
None == <<>>
Some(v) == <<v>>
IsNone(o) == o = None
Val(o) == o[1]

(***************************** input lines *********************************)
\* A line is the sequence of its comma-separated fields (line.split(',')),
\* with the blanks that follow each comma in the file kept in the field.
TitleLine       == <<"title", " 'T1'">>
Material1       == <<"material", " 100", " 50", " 200">>
Material2       == <<"material", " 90", " 40", " 180">>
MaterialBadNum  == <<"material", " 100", " abc", " 200">>
MaterialShort   == <<"material", " 100", " 50">>
Factor2         == <<"static_factor", " 2">>
Factor3         == <<"static_factor", " 3">>
FactorBadNum    == <<"static_factor", " abc">>
FactorMissing   == <<"static_factor">>
NodeA           == <<"node", " A", " 0", " 0">>
NodeB           == <<"NODE", " B", " 3", " 4">>
NodeAagain      == <<"node", " A", " 6", " 3">>
NodeBadNum      == <<"node", " C", " abc", " 4">>
NodeShort       == <<"node", " C", " 6">>
LinkAB          == <<"link", " L1", " A", " B">>
LinkBA          == <<"Link", " L2", " B", " A">>
LinkAZ          == <<"link", " L3", " A", " Z">>
LinkShort       == <<"link", " L4", " A">>
UnknownLine     == <<"beam", " 1">>
CommentLine     == <<"# nodes">>
BlankLine       == <<"">>

ParseLines ==
    { TitleLine, Material1, Material2, MaterialBadNum, MaterialShort,
      Factor2, Factor3, FactorBadNum, FactorMissing,
      NodeA, NodeB, NodeAagain, NodeBadNum, NodeShort,
      LinkAB, LinkAZ, LinkShort, UnknownLine, CommentLine, BlankLine }

GeomLines == { NodeA, NodeB, NodeAagain, LinkAB, LinkBA, LinkAZ }

ReLines == { NodeA, NodeB, NodeAagain, LinkAB, LinkAZ }

MaterialHeader == <<Material1, Factor2>>

SeqsUpTo(S, n) == UNION { [1..k -> S] : k \in 0..n }

Files == SeqsUpTo(ParseLines, MaxLines) \ { <<>> }

GeomFiles ==
    { h \o b : h \in { <<>>, MaterialHeader }, b \in SeqsUpTo(GeomLines, MaxGeomLines) }
        \ { <<>> }

ReFiles(n) == SeqsUpTo(ReLines, n) \ { <<>> }

(***************************** str and float *******************************)
\* str.strip(): the field without its leading and trailing blanks
StripTable ==
    [ s \in { " 'T1'", " 100", " 50", " 200", " 90", " 40", " 180", " abc", " 2", " 3",
              " A", " B", " C", " Z", " 0", " 4", " 6", " 1",
              " L1", " L2", " L3", " L4" } |->
        CASE s = " 'T1'" -> "'T1'" [] s = " 100" -> "100" [] s = " 50" -> "50"
          [] s = " 200" -> "200"   [] s = " 90" -> "90"   [] s = " 40" -> "40"
          [] s = " 180" -> "180"   [] s = " abc" -> "abc" [] s = " 2" -> "2"
          [] s = " 3" -> "3"       [] s = " A" -> "A"     [] s = " B" -> "B"
          [] s = " C" -> "C"       [] s = " Z" -> "Z"     [] s = " 0" -> "0"
          [] s = " 4" -> "4"       [] s = " 6" -> "6"     [] s = " 1" -> "1"
          [] s = " L1" -> "L1"     [] s = " L2" -> "L2"   [] s = " L3" -> "L3"
          [] s = " L4" -> "L4" ]

Strip(s) == IF s \in DOMAIN StripTable THEN StripTable[s] ELSE s

\* str.strip("'"): the field without the quote characters around it
StripQuotes(s) == IF s = "'T1'" THEN "T1" ELSE s

\* str.lower()
Lower(s) == CASE s = "NODE" -> "node" [] s = "Link" -> "link" [] OTHER -> s

\* str.startswith('#')
StartsWithHash(s) == s \in { "# nodes" }

\* float(s): the value of the numerals (float() strips blanks itself)
FloatTable ==
    [ s \in { "0", "1", "2", "3", "4", "6", "40", "50", "90", "100", "180", "200" } |->
        CASE s = "0" -> 0     [] s = "1" -> 1     [] s = "2" -> 2   [] s = "3" -> 3
          [] s = "4" -> 4     [] s = "6" -> 6     [] s = "40" -> 40 [] s = "50" -> 50
          [] s = "90" -> 90   [] s = "100" -> 100 [] s = "180" -> 180
          [] s = "200" -> 200 ]

\* float(s) raises ValueError
FloatFails(s) == Strip(s) \notin DOMAIN FloatTable

Float(s) == FloatTable[Strip(s)]

(***************************** the data model ******************************)
\* Position(x=x, y=y): z keeps its default 0.0
Position(x, y) == [x |-> x, y |-> y, z |-> 0]

\* Position.__sub__
PosSub(a, b) == [x |-> a.x - b.x, y |-> a.y - b.y, z |-> a.z - b.z]

Material(uts, ys, modulus) ==
    [uts |-> uts, ys |-> ys, E |-> modulus, staticFactor |-> None]

Node(name, position) == [name |-> name, position |-> position]

\* Link.__init__ stores "" as the name, whatever name it is given
Link(name, node1, node2) ==
    [name |-> "", node1_Name |-> node1, node2_Name |-> node2,
     length |-> None, angleRad |-> None]

TrussModel ==
    [title |-> None, links |-> <<>>, nodes |-> <<>>,
     material |-> Material(None, None, None)]

(***************************** Position ************************************)
RECURSIVE FloorSqrtFrom(_, _)
FloorSqrtFrom(n, r) == IF (r + 1) * (r + 1) > n THEN r ELSE FloorSqrtFrom(n, r + 1)

\* n ** 0.5, rounded to the nearest representable value
Sqrt(n) ==
    LET r == FloorSqrtFrom(n, 0)
    IN  IF n - r * r > r THEN r + 1 ELSE r

\* Position.mag
mag(p) == Sqrt(p.x * p.x + p.y * p.y + p.z * p.z)

\* An angle is kept as the expression getAngleRad returns: 0, math.acos(x/l) or
\* 2.0*math.pi - math.acos(x/l), with the x and l it was computed from.
AngleZero == [form |-> "0", x |-> 0, l |-> 0]
Acos(x, l) == [form |-> "acos", x |-> x, l |-> l]
TwoPiMinusAcos(x, l) == [form |-> "2pi-acos", x |-> x, l |-> l]

\* Position.getAngleRad
getAngleRad(p) ==
    LET l == mag(p)
    IN  IF l <= 0 THEN AngleZero
        ELSE IF p.y >= 0 THEN Acos(p.x, l)
        ELSE TwoPiMinusAcos(p.x, l)

(***************************** TrussController *****************************)
\* hasNode returning from inside its loop on the first node, whatever its name
hasNodeFirstOnly(t, name) == Len(t.nodes) > 0 /\ t.nodes[1].name = name

\* TrussController.hasNode
hasNode(t, name) == \E i \in 1..Len(t.nodes) : t.nodes[i].name = name

\* TrussController.getNode: the first node of that name (None when there is none)
getNode(t, name) ==
    IF hasNode(t, name)
    THEN LET i == CHOOSE k \in 1..Len(t.nodes) :
                      /\ t.nodes[k].name = name
                      /\ \A j \in 1..(k - 1) : t.nodes[j].name # name
         IN  Some(t.nodes[i])
    ELSE None

\* TrussController.addNode
addNode(t, node) == [t EXCEPT !.nodes = Append(@, node)]

\* addLink that skips a link whose two node names a link of the list already has
addLinkOnce(t, link) ==
    IF \E i \in 1..Len(t.links) :
           /\ t.links[i].node1_Name = link.node1_Name
           /\ t.links[i].node2_Name = link.node2_Name
    THEN t
    ELSE [t EXCEPT !.links = Append(@, link)]

\* TrussController.addLink
addLink(t, link) == [t EXCEPT !.links = Append(@, link)]

\* the loop body of calcLinkVals adding the distance to the length the link has
calcLinkAdding(t, l) ==
    LET n1 == IF hasNode(t, l.node1_Name) THEN getNode(t, l.node1_Name) ELSE None
        n2 == IF hasNode(t, l.node2_Name) THEN getNode(t, l.node2_Name) ELSE None
    IN  IF ~IsNone(n1) /\ ~IsNone(n2)
        THEN LET r == PosSub(Val(n2).position, Val(n1).position)
                 old == IF IsNone(l.length) THEN 0 ELSE Val(l.length)
             IN  [l EXCEPT !.length = Some(old + mag(r)), !.angleRad = Some(getAngleRad(r))]
        ELSE l

\* the body of the loop of calcLinkVals, for one link
calcLink(t, l) ==
    LET n1 == IF hasNode(t, l.node1_Name) THEN getNode(t, l.node1_Name) ELSE None
        n2 == IF hasNode(t, l.node2_Name) THEN getNode(t, l.node2_Name) ELSE None
    IN  IF ~IsNone(n1) /\ ~IsNone(n2)
        THEN LET r == PosSub(Val(n2).position, Val(n1).position)
             IN  [l EXCEPT !.length = Some(mag(r)), !.angleRad = Some(getAngleRad(r))]
        ELSE l

\* TrussController.calcLinkVals
calcLinkVals(t) ==
    [t EXCEPT !.links = [i \in 1..Len(t.links) |-> calcLink(t, t.links[i])]]

\* the `material` directive setting the three fields of the current Material
setMaterialInPlace(t, uts, ys, modulus) ==
    [t EXCEPT !.material.uts = Some(uts), !.material.ys = Some(ys),
              !.material.E = Some(modulus)]

\* the `material` directive: a new Material replaces the model's
setMaterial(t, uts, ys, modulus) ==
    [t EXCEPT !.material = Material(Some(uts), Some(ys), Some(modulus))]

\* the `static_factor` directive: the field of the current Material is set
setStaticFactor(t, f) == [t EXCEPT !.material.staticFactor = Some(f)]

\* x, y, ... = map(float, fields): ValueError unless there are exactly n fields
\* and float() accepts each of them
UnpackFails(fields, n) ==
    \/ Len(fields) # n
    \/ \E i \in 1..Len(fields) : FloatFails(fields[i])

Rest(parts, k) == SubSeq(parts, k, Len(parts))

\* the try block of the loop of ImportFromFile, for the fields of one line:
\* the model after it and the exception it raised ("" for none)
Dispatch(t, parts) ==
    LET keyword == Lower(Strip(parts[1]))
        ok(m) == [truss |-> m, exc |-> ""]
        fail(e) == [truss |-> t, exc |-> e]
    IN  CASE keyword = "title" ->
               IF Len(parts) < 2 THEN fail("IndexError")
               ELSE ok([t EXCEPT !.title = Some(StripQuotes(Strip(parts[2])))])
          [] keyword = "material" ->
               IF UnpackFails(Rest(parts, 2), 3) THEN fail("ValueError")
               ELSE ok(setMaterial(t, Float(parts[2]), Float(parts[3]), Float(parts[4])))
          [] keyword = "static_factor" ->
               IF Len(parts) < 2 THEN fail("IndexError")
               ELSE IF FloatFails(parts[2]) THEN fail("ValueError")
               ELSE ok(setStaticFactor(t, Float(parts[2])))
          [] keyword = "node" ->
               IF Len(parts) < 2 THEN fail("IndexError")
               ELSE IF UnpackFails(Rest(parts, 3), 2) THEN fail("ValueError")
               ELSE IF hasNode(t, Strip(parts[2])) THEN ok(t)
               ELSE ok(addNode(t, Node(Strip(parts[2]),
                                       Position(Float(parts[3]), Float(parts[4])))))
          [] keyword = "link" ->
               IF Len(parts) < 4 THEN fail("IndexError")
               ELSE ok(addLink(t, Link(parts[2], Strip(parts[3]), Strip(parts[4]))))
          [] OTHER -> ok(t)

\* a loop that catches nothing
CaughtNothing(exc) == FALSE

\* except ValueError: the exceptions the loop catches, going on with the next line
Caught(exc) == exc = "ValueError"

\* one pass of the loop of ImportFromFile over a line: comments and blank
\* lines are skipped, the others dispatched
processLine(t, parts) ==
    IF StartsWithHash(Strip(parts[1])) \/ (Len(parts) = 1 /\ Strip(parts[1]) = "")
    THEN [truss |-> t, exc |-> ""]
    ELSE Dispatch(t, parts)

(***************************** TrussView ***********************************)
\* "{:0.2f}".format(v): the text shown for v (the model keeps the value shown)
Format2f(v) == [text2f |-> v]

\* the widgets and the scene after TrussView.__init__
NewView ==
    [te_Report |-> None, le_LongLinkName |-> "", le_LongLinkLength |-> None,
     le_LongLinkNode1 |-> "", le_LongLinkNode2 |-> "",
     scene |-> [lineItems |-> <<>>, circles |-> <<>>]]

\* the loop of displayReport: the index of `longest` after the links 1..i
\* (0 while longest is None)
RECURSIVE LongestUpTo(_, _)
LongestUpTo(links, i) ==
    IF i = 0 THEN 0
    ELSE LET j == LongestUpTo(links, i - 1)
         IN  IF j = 0 \/ Val(links[i].length) > Val(links[j].length) THEN i ELSE j

\* the text displayReport builds
ReportText(t) ==
    [title |-> t.title,
     staticFactor |-> Format2f(Val(t.material.staticFactor)),
     uts |-> Format2f(Val(t.material.uts)),
     ys |-> Format2f(Val(t.material.ys)),
     E |-> Format2f(Val(t.material.E)),
     rows |-> [i \in 1..Len(t.links) |->
                 <<t.links[i].name, t.links[i].node1_Name, t.links[i].node2_Name,
                   Format2f(Val(t.links[i].length)), Format2f(Val(t.links[i].angleRad))>>]]

\* TrussView.displayReport: the view after it and the exception it raised.
\* Formatting None with {:0.2f}, or comparing None with >, raises TypeError before
\* any widget is set; with no link, longest.name raises AttributeError after the
\* report text is set.
displayReport(t, v) ==
    IF \/ IsNone(t.material.staticFactor) \/ IsNone(t.material.uts)
       \/ IsNone(t.material.ys) \/ IsNone(t.material.E)
       \/ \E i \in 1..Len(t.links) :
              IsNone(t.links[i].length) \/ IsNone(t.links[i].angleRad)
    THEN [view |-> v, exc |-> "TypeError"]
    ELSE IF Len(t.links) = 0
    THEN [view |-> [v EXCEPT !.te_Report = Some(ReportText(t))], exc |-> "AttributeError"]
    ELSE LET longest == t.links[LongestUpTo(t.links, Len(t.links))]
         IN  [view |-> [v EXCEPT !.te_Report = Some(ReportText(t)),
                                 !.le_LongLinkName = longest.name,
                                 !.le_LongLinkLength = Some(Format2f(Val(longest.length))),
                                 !.le_LongLinkNode1 = longest.node1_Name,
                                 !.le_LongLinkNode2 = longest.node2_Name],
              exc |-> ""]

\* TrussView.drawLinks: a line for every link whose two nodes are found
drawLinks(t) ==
    LET found(l) == hasNode(t, l.node1_Name) /\ hasNode(t, l.node2_Name)
        drawn == SelectSeq(t.links, found)
    IN  [i \in 1..Len(drawn) |->
           LET p1 == Val(getNode(t, drawn[i].node1_Name)).position
               p2 == Val(getNode(t, drawn[i].node2_Name)).position
           IN  <<p1.x, p1.y, p2.x, p2.y>>]

\* TrussView.drawNodes: a circle for every node
drawNodes(t) ==
    [i \in 1..Len(t.nodes) |-> <<t.nodes[i].position.x, t.nodes[i].position.y>>]

\* TrussView.buildScene (the items of the scene other than the grid lines):
\* nothing is drawn for a truss without nodes, else the scene is cleared and drawn
buildScene(t, v) ==
    IF Len(t.nodes) = 0 THEN v
    ELSE [v EXCEPT !.scene = [lineItems |-> drawLinks(t), circles |-> drawNodes(t)]]

(***************************** the state machine ***************************)
Init ==
    /\ truss = TrussModel
    /\ view = NewView
    /\ pc = "idle"
    /\ lines = <<>>
    /\ file = <<>>
    /\ raised = ""
    /\ lastOp = "init"
    /\ pre = TrussModel
    /\ prev = [file |-> <<>>, pre |-> TrussModel]
    /\ nRead = 0

\* ImportFromFile, lines 226-236, for a path that is empty or names no file:
\* a message is printed and the call returns
ImportNoFile ==
    /\ pc = "idle"
    /\ UNCHANGED vars

\* ImportFromFile, lines 226-236, for a file with the lines f: the lines are read
ImportFromFile(f) ==
    /\ pc = "idle"
    /\ pc' = "loop"
    /\ lines' = f
    /\ file' = f
    /\ raised' = ""
    /\ pre' = truss
    /\ prev' = [file |-> file, pre |-> pre]
    /\ nRead' = nRead + Len(f)
    /\ UNCHANGED <<truss, view, lastOp>>

\* ImportFromFile, lines 239-270: the loop processes the next line; an exception
\* the loop does not catch ends ImportFromFile
ProcessLine ==
    /\ pc = "loop"
    /\ lines # <<>>
    /\ LET o == processLine(truss, Head(lines))
       IN  /\ truss' = o.truss
           /\ lines' = Tail(lines)
           /\ IF o.exc = "" \/ Caught(o.exc)
              THEN UNCHANGED <<pc, raised, lastOp>>
              ELSE /\ pc' = "idle"
                   /\ raised' = o.exc
                   /\ lastOp' = "aborted"
    /\ UNCHANGED <<view, file, pre, prev, nRead>>

\* ImportFromFile, lines 272-274, after the last line: calcLinkVals, displayReport
\* and, unless displayReport raised, drawTruss
FinishImport ==
    /\ pc = "loop"
    /\ lines = <<>>
    /\ LET t == calcLinkVals(truss)
           r == displayReport(t, view)
       IN  /\ truss' = t
           /\ raised' = r.exc
           /\ view' = IF r.exc = "" THEN buildScene(t, r.view) ELSE r.view
    /\ pc' = "idle"
    /\ lastOp' = "ImportFromFile"
    /\ UNCHANGED <<lines, file, pre, prev, nRead>>

\* a call of calcLinkVals on its own
CalcLinkVals ==
    /\ pc = "idle"
    /\ truss' = calcLinkVals(truss)
    /\ lastOp' = "calcLinkVals"
    /\ UNCHANGED <<view, pc, lines, file, raised, pre, prev, nRead>>

Run == ImportNoFile \/ ProcessLine \/ FinishImport \/ CalcLinkVals

\* one import of a file of directives of every kind
ImportParse == pc = "idle" /\ nRead = 0 /\ \E f \in Files : ImportFromFile(f)

Next == ImportParse \/ Run

Spec == Init /\ [][Next]_vars

\* one import of a file of nodes and links, with or without the material lines
ImportGeom == pc = "idle" /\ nRead = 0 /\ \E f \in GeomFiles : ImportFromFile(f)

NextGeom == ImportGeom \/ Run

SpecGeom == Init /\ [][NextGeom]_vars

\* any number of imports of files of nodes and links
ImportAgain ==
    pc = "idle" /\ \E f \in ReFiles(MaxTotalLines - nRead) : ImportFromFile(f)

NextReimport == ImportAgain \/ Run

SpecReimport == Init /\ [][NextReimport]_vars

(***************************** the claims **********************************)
\* the lines the current import has processed
processed == SubSeq(file, 1, Len(file) - Len(lines))

\* what the well-formed lines of the input declare, read off the lines
WellFormedNodeLines == { NodeA, NodeB, NodeAagain }
DeclaredName(line) == IF line = NodeB THEN "B" ELSE "A"
DeclaredPosition(line) ==
    CASE line = NodeA -> [x |-> 0, y |-> 0, z |-> 0]
      [] line = NodeB -> [x |-> 3, y |-> 4, z |-> 0]
      [] line = NodeAagain -> [x |-> 6, y |-> 3, z |-> 0]
WellFormedLinkLines == { LinkAB, LinkBA, LinkAZ }
DeclaredLink(line) ==
    CASE line = LinkAB -> <<"L1", "A", "B">>
      [] line = LinkBA -> <<"L2", "B", "A">>
      [] line = LinkAZ -> <<"L3", "A", "Z">>
WellFormedMaterialLines == { Material1, Material2 }
DeclaredMaterial(line) == IF line = Material1 THEN <<100, 50, 200>> ELSE <<90, 40, 180>>
WellFormedFactorLines == { Factor2, Factor3 }
DeclaredFactor(line) == IF line = Factor2 THEN 2 ELSE 3
BadNumberLines == { MaterialBadNum, FactorBadNum, NodeBadNum }
MissingFieldLines == { MaterialShort, FactorMissing, NodeShort }

\* the index of the last line of s that is in S, 0 when there is none
LastIn(s, S) ==
    LET I == { k \in 1..Len(s) : s[k] \in S }
    IN  IF I = {} THEN 0 ELSE CHOOSE k \in I : \A j \in I : j <= k

\* the index of the first line of s that declares a node called name
FirstDeclaring(s, name) ==
    CHOOSE k \in 1..Len(s) :
        /\ s[k] \in WellFormedNodeLines /\ DeclaredName(s[k]) = name
        /\ \A j \in 1..(k - 1) :
               ~(s[j] \in WellFormedNodeLines /\ DeclaredName(s[j]) = name)

IsPrefix(a, b) == Len(a) <= Len(b) /\ \A i \in 1..Len(a) : a[i] = b[i]

\* C1: at every point of an import into a new model no two nodes share a name,
\* there are as many nodes as distinct names among the well-formed node lines
\* processed, and each node has the position of the first line declaring its name.
C1_UniqueNodeNames ==
    LET p == processed
        names == { DeclaredName(p[k]) :
                     k \in { j \in 1..Len(p) : p[j] \in WellFormedNodeLines } }
    IN  /\ \A i, j \in 1..Len(truss.nodes) :
               i # j => truss.nodes[i].name # truss.nodes[j].name
        /\ Len(truss.nodes) = Cardinality(names)
        /\ \A i \in 1..Len(truss.nodes) :
               /\ truss.nodes[i].name \in names
               /\ truss.nodes[i].position =
                      DeclaredPosition(p[FirstDeclaring(p, truss.nodes[i].name)])

C1_Witness ==
    /\ pc = "idle" /\ lastOp = "ImportFromFile"
    /\ file = <<NodeAagain, NodeB, NodeA>>
    /\ Len(truss.nodes) = 2
    /\ truss.nodes[1] = [name |-> "A", position |-> [x |-> 6, y |-> 3, z |-> 0]]

\* C2: a material, static_factor or node line with a numeric field that is no
\* number leaves the model as it was and the loop goes on with the next line;
\* of three node lines whose second has text for a number, two nodes are made.
C2_BadNumberLineSkipped ==
    /\ [][(pc = "loop" /\ lines # <<>> /\ Head(lines) \in BadNumberLines)
            => (truss' = truss /\ pc' = "loop" /\ lines' = Tail(lines)
                /\ raised' = raised)]_vars
    /\ []((file = <<NodeA, NodeBadNum, NodeB>> /\ lines = <<>>)
            => Len(truss.nodes) = 2)

C2_Witness ==
    /\ pc = "idle" /\ lastOp = "ImportFromFile"
    /\ file = <<NodeA, NodeBadNum, NodeB>>
    /\ Len(truss.nodes) = 2

\* C3: a material, static_factor or node line with a numeric field missing
\* leaves the model as it was and the loop goes on with the next line.
C3_MissingFieldLineSkipped ==
    [][(pc = "loop" /\ lines # <<>> /\ Head(lines) \in MissingFieldLines)
         => (truss' = truss /\ pc' = "loop" /\ lines' = Tail(lines))]_vars

\* the links of the model one of whose node names no node has
Unresolved ==
    { i \in 1..Len(truss.links) :
        \/ \A j \in 1..Len(truss.nodes) : truss.nodes[j].name # truss.links[i].node1_Name
        \/ \A j \in 1..Len(truss.nodes) : truss.nodes[j].name # truss.links[i].node2_Name }

MaterialSet ==
    /\ ~IsNone(truss.material.uts) /\ ~IsNone(truss.material.ys)
    /\ ~IsNone(truss.material.E) /\ ~IsNone(truss.material.staticFactor)

\* C4: after an import of a file with its material lines and a link naming an
\* absent node, that link is in the model with length and angle unset, the
\* import has returned normally (derivation, report and drawing done), and the
\* report does not show that link as the longest.
C4_UnresolvedLinkTolerated ==
    (pc = "idle" /\ lastOp = "ImportFromFile" /\ MaterialSet /\ Unresolved # {})
        => /\ \A i \in Unresolved :
                  IsNone(truss.links[i].length) /\ IsNone(truss.links[i].angleRad)
           /\ raised = ""
           /\ ~IsNone(view.te_Report)
           /\ \A i \in Unresolved :
                  ~(/\ view.le_LongLinkNode1 = truss.links[i].node1_Name
                    /\ view.le_LongLinkNode2 = truss.links[i].node2_Name)

\* C5: the material is that of the last well-formed material line processed
\* (unset when there is none), and the static factor that of the last
\* well-formed static_factor line after it (unset when there is none).
C5_LastMaterialWins ==
    LET p == processed
        im == LastIn(p, WellFormedMaterialLines)
        ifac == LastIn(p, WellFormedFactorLines)
        m == truss.material
    IN  /\ m.uts = IF im = 0 THEN None ELSE Some(DeclaredMaterial(p[im])[1])
        /\ m.ys = IF im = 0 THEN None ELSE Some(DeclaredMaterial(p[im])[2])
        /\ m.E = IF im = 0 THEN None ELSE Some(DeclaredMaterial(p[im])[3])
        /\ m.staticFactor = IF ifac > im THEN Some(DeclaredFactor(p[ifac])) ELSE None

C5_Witness ==
    /\ processed = <<Material1, Factor2, Material2>>
    /\ truss.material = [uts |-> Some(90), ys |-> Some(40), E |-> Some(180),
                         staticFactor |-> None]

\* C6: a link line with a name and two node names appends one Link with that
\* name and those two node names, unset length and angle, after the links the
\* list has, which stay as they are.
C6_LinkAppended ==
    [][(pc = "loop" /\ lines # <<>> /\ Head(lines) \in WellFormedLinkLines)
         => LET d == DeclaredLink(Head(lines))
            IN  /\ Len(truss'.links) = Len(truss.links) + 1
                /\ IsPrefix(truss.links, truss'.links)
                /\ truss'.links[Len(truss'.links)] =
                       [name |-> d[1], node1_Name |-> d[2], node2_Name |-> d[3],
                        length |-> None, angleRad |-> None]]_vars

\* the first node called name, in insertion order
FirstNamed(name) ==
    truss.nodes[CHOOSE k \in 1..Len(truss.nodes) :
                    /\ truss.nodes[k].name = name
                    /\ \A j \in 1..(k - 1) : truss.nodes[j].name # name]

\* the value of the angle expression a is 0; is in [0, pi]; is in (pi, 2 pi):
\* acos maps [-1, 1] onto [0, pi], decreasing, with acos(1) = 0 and acos(-1) = pi
AngleIsZero(a) == a.form = "0" \/ (a.form = "acos" /\ a.x = a.l)
AngleInZeroToPi(a) == a.form = "0" \/ (a.form = "acos" /\ -a.l <= a.x /\ a.x <= a.l)
AngleInPiToTwoPi(a) == a.form = "2pi-acos" /\ -a.l < a.x /\ a.x < a.l

\* L is the representable value nearest to the square root of n
IsRoot(L, n) == L >= 0 /\ (2 * L - 1) * (2 * L - 1) <= 4 * n /\ 4 * n < (2 * L + 1) * (2 * L + 1)

\* C7: after calcLinkVals every link whose two names resolve has the distance
\* between its nodes as length and the planar angle of the displacement as
\* angle: 0 for coinciding nodes, in [0, pi] for dy >= 0, in (pi, 2 pi) for
\* dy < 0; the link from A(0,0) to B(3,4) has length 5.
C7_LengthAndAngle ==
    (pc = "idle" /\ lastOp \in { "ImportFromFile", "calcLinkVals" })
        => \A i \in (1..Len(truss.links)) \ Unresolved :
               LET l == truss.links[i]
                   p1 == FirstNamed(l.node1_Name).position
                   p2 == FirstNamed(l.node2_Name).position
                   dx == p2.x - p1.x
                   dy == p2.y - p1.y
               IN  /\ ~IsNone(l.length) /\ ~IsNone(l.angleRad)
                   /\ IsRoot(Val(l.length), dx * dx + dy * dy)
                   /\ ((dx = 3 /\ dy = 4) => Val(l.length) = 5)
                   /\ ((dx = 0 /\ dy = 0) => AngleIsZero(Val(l.angleRad)))
                   /\ (dy >= 0 => AngleInZeroToPi(Val(l.angleRad)))
                   /\ (dy < 0 => AngleInPiToTwoPi(Val(l.angleRad)))

\* C8: calcLinkVals run again, right after a calcLinkVals or an import that ran
\* it, changes neither the model nor the view.
C8_CalcLinkValsIdempotent ==
    [][(/\ pc = "idle" /\ pc' = "idle"
        /\ lastOp \in { "ImportFromFile", "calcLinkVals" }
        /\ lastOp' = "calcLinkVals")
         => (truss' = truss /\ view' = view)]_vars

C8_Witness ==
    /\ pc = "idle" /\ lastOp = "calcLinkVals" /\ nRead > 0
    /\ \E i \in 1..Len(truss.links) : truss.links[i].length = Some(5)
    /\ \E i \in 1..Len(truss.links) : IsNone(truss.links[i].length)

\* the first link of greatest length
FirstLongest ==
    CHOOSE i \in 1..Len(truss.links) :
        /\ \A j \in 1..Len(truss.links) :
               Val(truss.links[j].length) <= Val(truss.links[i].length)
        /\ \A j \in 1..(i - 1) :
               Val(truss.links[j].length) < Val(truss.links[i].length)

\* C9: after the report of an import of a model with a link and every length
\* defined, the view shows as longest link the first link of greatest length.
C9_FirstLongestReported ==
    (/\ pc = "idle" /\ lastOp = "ImportFromFile"
     /\ Len(truss.links) >= 1
     /\ \A i \in 1..Len(truss.links) : ~IsNone(truss.links[i].length))
        => /\ view.le_LongLinkLength = Some(Format2f(Val(truss.links[FirstLongest].length)))
           /\ view.le_LongLinkNode1 = truss.links[FirstLongest].node1_Name
           /\ view.le_LongLinkNode2 = truss.links[FirstLongest].node2_Name

\* the node names of the links
Ends(links) == [i \in 1..Len(links) |-> <<links[i].node1_Name, links[i].node2_Name>>]

\* the node names of the well-formed link lines of the lines s, in order
LinkEndsOf(s) ==
    LET isLink(line) == line \in WellFormedLinkLines
        ls == SelectSeq(s, isLink)
    IN  [i \in 1..Len(ls) |-> <<DeclaredLink(ls[i])[2], DeclaredLink(ls[i])[3]>>]

\* C10: the nodes and links a model had when an import started stay the first
\* ones of its lists, every node of a name the model had keeps the position it
\* had, and an import of the file the import before it read adds no node and
\* appends every link of the file again.
C10_ImportNeverResets ==
    /\ IsPrefix(pre.nodes, truss.nodes)
    /\ IsPrefix(Ends(pre.links), Ends(truss.links))
    /\ IsPrefix(prev.pre.nodes, pre.nodes)
    /\ IsPrefix(Ends(prev.pre.links), Ends(pre.links))
    /\ \A i \in 1..Len(pre.nodes) : \A j \in 1..Len(truss.nodes) :
           truss.nodes[j].name = pre.nodes[i].name
               => truss.nodes[j].position = pre.nodes[i].position
    /\ (pc = "idle" /\ lines = <<>> /\ file # <<>> /\ prev.file = file)
           => /\ truss.nodes = pre.nodes
              /\ Ends(truss.links) = Ends(pre.links) \o LinkEndsOf(file)
              /\ Ends(pre.links) = Ends(prev.pre.links) \o LinkEndsOf(file)

C10_Witness ==
    /\ pc = "idle" /\ lastOp = "ImportFromFile"
    /\ file = <<NodeAagain, LinkAB>> /\ prev.file = file
    /\ Len(truss.nodes) = 1 /\ Len(truss.links) = 2
    /\ Len(pre.links) = 1

====
